---- MODULE Spec2Model ----
(***************************************************************************)
(* Model of the synchronisation engine of Client/src/sync.py (class Sync). *)
(*                                                                         *)
(* Text (paths) is a sequence of one-character strings.  A digest is the   *)
(* record [md5 |-> bytes]: MD5 is taken to be collision free.  The         *)
(* collaborators (self.API, self.rdiff, the file system) answer by         *)
(* nondeterministic choice in the action that calls them.                  *)
(***************************************************************************)
EXTENDS Integers, Sequences, FiniteSets, TLC

VARIABLES
    \* inputs and result of sync_folder_listing
    localWalk,     \* os.walk(full_folder_path): sequence of <<dir_path, filenames>>
    remoteResp,    \* answer of API.filer_get_folder_listing: [status_code, listing]
    recursive,     \* argument recursive
    listingRet,    \* value returned by sync_folder_listing, or NoValue
    \* sync_folder
    pc,            \* control point of sync_folder
    retval,        \* "none", the value returned by sync_folder, or the exception that left it
    futures,       \* worker-pool tasks: task -> "pending" | "ok" | "failed" | "raised"
    both,          \* the list both of the current pass (paths: references to entries)
    bi,            \* index of b in both, in sync_both_files
    repeat,        \* the list repeat (paths: references to the same entries)
    remote_meta,   \* the entry dicts of the listing, by rel_path
    lockRead,      \* the owner read by the last filer_get_file_lock
    passNo,        \* passes of sync_both_files started
    sleeps,        \* calls of sleep(repeat_time) completed
    visitLog,      \* what the loop did for the current b so far: <<path, what, value>>
    passFacts,     \* the set of everything logged in the current pass
    \* sync_both_file
    spc,           \* control point of sync_both_file ("idle" outside it)
    genPos,        \* values taken from file_md5_generator
    md5none,       \* remote_md5_is_none
    mtimes,        \* <<local_mtime, remote_mtime>> of the attempt, or <<>>
    sbfRet,        \* "none", the value returned by the last sync_both_file, or "raised"
    steps,         \* collaborator calls of the current attempt: [op, ok]
    tagsSent,      \* values sent by filer_set_file_md5_tag in the current attempt
    \* the world
    lock,          \* the store's lock of each remote path: owner or ""
    disk,          \* local files: rel_path -> bytes, or Absent
    disk2,         \* the patched file f'{filepath}_2': rel_path -> bytes, or Absent
    remoteBytes,   \* the store's content of each remote path
    tagAnswers,    \* what filer_get_file_md5_tag may answer
    \* several clients at the lock of one path
    rpc,           \* client -> its control point in sync_both_files
    rread,         \* client -> the owner its last filer_get_file_lock read
    \* upload_file and upload_folder
    upc,           \* control point of upload_file / upload_folder
    uargs,         \* the arguments of the call and the files they name
    di,            \* index of the os.walk level upload_folder is at
    fi,            \* index of fi in filenames
    uret,          \* "none" or the value returned
    sent,          \* everything received from ws and sent on ws and tcp_socket, in order
    \* receive_file
    rcvpc,         \* control point of receive_file
    stream,        \* the peer's side of tcp_socket: what it sends and what is not yet read
    file,          \* the bytes written to the file
    buf,           \* the value the last tcp_socket.recv returned
    \* the scratch directories
    tempRoot,      \* names of the folders in gettempdir()
    inst,          \* engine instance -> "off" | "created" | "purging" | "running" | "failed"
                   \*   | "exited" | "crashed"
    scan           \* engine instance -> the folders of its listing not yet looked at

listingVars == <<localWalk, remoteResp, recursive, listingRet>>
folderVars  == <<pc, retval, futures, both, bi, repeat, remote_meta, lockRead, passNo, sleeps,
                 visitLog, passFacts>>
fileVars    == <<spc, genPos, md5none, mtimes, sbfRet, steps, tagsSent>>
worldVars   == <<lock, disk, disk2, remoteBytes, tagAnswers>>
raceVars    == <<rpc, rread>>
uploadVars  == <<upc, uargs, di, fi, uret, sent>>
recvVars    == <<rcvpc, stream, file, buf>>
tempVars    == <<tempRoot, inst, scan>>
sideVars    == <<uploadVars, recvVars, tempVars>>
mainVars    == <<listingVars, folderVars, fileVars, worldVars, raceVars>>
vars == <<mainVars, sideVars>>

NoValue == [none |-> TRUE]

----------------------------------------------------------------------------
(* Bounds of the model *)

MaxListing == 3      \* entries in a remote folder listing

----------------------------------------------------------------------------
(* Text helpers *)

Slash == <<"/">>

IsPrefix(p, t) == Len(p) <= Len(t) /\ SubSeq(t, 1, Len(p)) = p

\* Sync.remove_prefix
remove_prefix(text, prefix) ==
    IF IsPrefix(prefix, text) THEN SubSeq(text, Len(prefix) + 1, Len(text)) ELSE text

RECURSIVE SeqsUpTo(_, _)
SeqsUpTo(S, n) ==
    IF n = 0 THEN {<<>>}
    ELSE LET shorter == SeqsUpTo(S, n - 1)
         IN  shorter \cup {Append(s, x) : s \in {t \in shorter : Len(t) = n - 1}, x \in S}

Range(s) == {s[i] : i \in 1..Len(s)}

----------------------------------------------------------------------------
(* sync_folder_listing *)

base_path        == <<"B">>
full_folder_path == <<"B", "/", "d">>
username         == <<"u">>

FileModeLimit == 9999
HttpErrorFrom == 300

\* lines 148 and 259: r.status_code >= 300
IsHttpErrorMutant(code) == FALSE
IsHttpError(code) == code >= HttpErrorFrom

\* line 151: an entry is a file when its Mode is at most 9999
IsFileMutant(entry) == TRUE
IsFile(entry) == entry.Mode <= FileModeLimit

\* lines 150-153: the dict remote_files as a sequence of <<rel_path, entry>>, in
\* insertion order; a later entry of the same path replaces the value in place
RECURSIVE RemoteFiles(_)
RemoteFiles(listing) ==
    IF listing = <<>> THEN <<>>
    ELSE LET before == RemoteFiles(SubSeq(listing, 1, Len(listing) - 1))
             entry  == listing[Len(listing)]
             rel    == remove_prefix(entry.FullPath, Slash \o username \o Slash)
         IN  IF ~IsFile(entry) THEN before
             ELSE IF \E i \in 1..Len(before) : before[i][1] = rel
                  THEN [i \in 1..Len(before) |->
                           IF before[i][1] = rel THEN <<rel, entry>> ELSE before[i]]
                  ELSE Append(before, <<rel, entry>>)

\* lines 155-162: the set local_files
LocalFiles(walk, rec) ==
    LET levels == IF rec \/ walk = <<>> THEN walk ELSE SubSeq(walk, 1, 1)
    IN  UNION { { remove_prefix(levels[i][1], base_path \o Slash) \o Slash \o <<f>>
                  : f \in levels[i][2] } : i \in 1..Len(levels) }

\* lines 146-170: (r, (base_path, local_only), remote_only, both)
SyncFolderListing(resp, walk, rec) ==
    IF IsHttpError(resp.status_code)
    THEN [r |-> resp.status_code, local_only |-> {}, remote_only |-> <<>>, both |-> <<>>]
    ELSE LET remote_files == RemoteFiles(resp.listing)
             local_files  == LocalFiles(walk, rec)
             keys         == {remote_files[i][1] : i \in 1..Len(remote_files)}
             local_only   == {l \in local_files : l \notin keys}
             NotLocal(pe) == pe[1] \notin local_files
             remote_only  == SelectSeq(remote_files, NotLocal)
             roPaths      == {remote_only[i][1] : i \in 1..Len(remote_only)}
             Both(pe)     == pe[1] \notin (roPaths \cup local_only)
         IN  [r |-> resp.status_code,
              local_only  |-> local_only,
              remote_only |-> [i \in 1..Len(remote_only) |-> remote_only[i][1]],
              both        |-> SelectSeq(remote_files, Both)]

----------------------------------------------------------------------------
(* Inputs of sync_folder_listing *)

Statuses      == {200, 404}
DirModes      == {10000}

NoMeta == [FileSize |-> 1, Md5 |-> "None", chunks |-> <<>>]

Entry(path, m, meta) ==
    [FullPath |-> path, Mode |-> m, FileSize |-> meta.FileSize, Md5 |-> meta.Md5,
     chunks |-> meta.chunks]

RemoteA  == <<"/", "u", "/", "d", "/", "a">>
RemoteSA == <<"/", "u", "/", "d", "/", "s", "/", "a">>
RemoteX  == <<"/", "d", "/", "a">>          \* not under /username/

ListingEntries ==
    {Entry(p, m, NoMeta) : p \in {RemoteA, RemoteSA, RemoteX}, m \in {FileModeLimit} \cup DirModes}
    \cup {Entry(RemoteA, FileModeLimit, [NoMeta EXCEPT !.FileSize = 2])}

\* os.walk of a folder d holding files among a, b and perhaps a sub-folder s
Walks ==
    {<<<<full_folder_path, fs>>>> : fs \in SUBSET {"a", "b"}}
    \cup {<< <<full_folder_path, fs>>, <<full_folder_path \o <<"/", "s">>, ss>> >>
            : fs \in SUBSET {"a", "b"}, ss \in SUBSET {"a"}}

Absent == <<-1>>
me    == "me"
other == "other"

IdleFolder ==
    /\ pc = "idle" /\ retval = "none" /\ futures = <<>> /\ both = <<>> /\ bi = 0
    /\ repeat = <<>> /\ remote_meta = <<>> /\ lockRead = "" /\ passNo = 0 /\ sleeps = 0
    /\ visitLog = <<>> /\ passFacts = {}

IdleFile ==
    /\ spc = "idle" /\ genPos = 0 /\ md5none = FALSE /\ mtimes = <<>>
    /\ sbfRet = "none" /\ steps = <<>> /\ tagsSent = <<>>

IdleRace == rpc = <<>> /\ rread = <<>>

IdleWorld ==
    /\ lock = <<>> /\ disk = <<>> /\ disk2 = <<>> /\ remoteBytes = <<>> /\ tagAnswers = {}

IdleUpload ==
    /\ upc = "idle" /\ uargs = <<>> /\ di = 0 /\ fi = 0 /\ uret = "none" /\ sent = <<>>

IdleRecv == rcvpc = "idle" /\ stream = <<>> /\ file = <<>> /\ buf = <<>>

IdleTemp == tempRoot = {} /\ inst = <<>> /\ scan = <<>>

IdleSide == IdleUpload /\ IdleRecv /\ IdleTemp

InitListing ==
    /\ localWalk \in Walks
    /\ recursive \in BOOLEAN
    /\ remoteResp \in
          {[status_code |-> 200, listing |-> l] : l \in SeqsUpTo(ListingEntries, MaxListing)}
          \cup {[status_code |-> 404, listing |-> <<>>]}
    /\ listingRet = NoValue
    /\ IdleFolder /\ IdleFile /\ IdleWorld /\ IdleRace /\ IdleSide

\* one call of sync_folder_listing
ListingCall ==
    /\ listingRet = NoValue
    /\ listingRet' = SyncFolderListing(remoteResp, localWalk, recursive)
    /\ UNCHANGED <<sideVars, raceVars, localWalk, remoteResp, recursive, folderVars, fileVars, worldVars>>

SpecListing == InitListing /\ [][ListingCall]_vars

----------------------------------------------------------------------------
(* Digests: hashlib.md5, base64, md5_file_generator *)

MaxFileLen      == 2     \* bytes in a file
ChunkSize       == 1     \* bytes read per chunk by md5_file_generator (size)
MaxRemoteChunks == 2     \* chunks of a remote entry

Bytes == {0, 1}
Files == SeqsUpTo(Bytes, MaxFileLen)

Md5(bytes) == [md5 |-> bytes]

\* text of a digest field: 'None', '' or a base64 string
MdNone   == [kind |-> "None",  of |-> Md5(Absent)]
MdEmpty  == [kind |-> "empty", of |-> Md5(Absent)]
b64encode(d) == [kind |-> "b64", of |-> d]
b64decode(t) == t.of

Min(a, b) == IF a < b THEN a ELSE b

\* iter(lambda: fi.read(size), b""): the chunks of a file
RECURSIVE FileChunks(_, _)
FileChunks(bytes, size) ==
    IF bytes = <<>> THEN <<>>
    ELSE <<SubSeq(bytes, 1, Min(size, Len(bytes)))>>
         \o FileChunks(SubSeq(bytes, Min(size, Len(bytes)) + 1, Len(bytes)), size)

\* Sync.md5_whole_file(filename, bytes_=True)
md5_whole_file(bytes) == Md5(bytes)

\* Sync.md5_file_generator: every value the generator yields, in order
md5_file_generator(bytes) ==
    LET cs == FileChunks(bytes, ChunkSize)
    IN  [i \in 1..Len(cs) |-> Md5(cs[i])] \o <<Md5(bytes)>>

\* chunks_md5s_equals, started with pos values already taken from the generator:
\* [res |-> "true" | "false" | "StopIteration", pos |-> values taken afterwards]
RECURSIVE ChunksEqFrom(_, _, _, _)
ChunksEqFrom(chunks, gen, i, pos) ==
    IF i > Len(chunks) THEN [res |-> "true", pos |-> pos]
    ELSE IF pos >= Len(gen) THEN [res |-> "StopIteration", pos |-> pos]
    ELSE IF b64decode(chunks[i].e_tag) # gen[pos + 1] THEN [res |-> "false", pos |-> pos + 1]
    ELSE ChunksEqFrom(chunks, gen, i + 1, pos + 1)

chunks_md5s_equals(chunks, gen, pos) == ChunksEqFrom(chunks, gen, 1, pos)

\* lines 235-237, with Python's short-circuit evaluation:
\* [res |-> "true" | "false" | "StopIteration", pos |-> generator values taken]
SizeEqualMutant(bytes, meta) == TRUE
SizeEqual(bytes, meta) == Len(bytes) = meta.FileSize

AlreadySynced(bytes, meta, none, pos) ==
    IF ~SizeEqual(bytes, meta) THEN [res |-> "false", pos |-> pos]
    ELSE IF ~none
         THEN [res |-> IF md5_whole_file(bytes) = b64decode(meta.Md5) THEN "true" ELSE "false",
               pos |-> pos]
         ELSE chunks_md5s_equals(meta.chunks, md5_file_generator(bytes), pos)

----------------------------------------------------------------------------
(* Modification times *)

RECURSIVE DigitsToNat(_)
DigitsToNat(ds) ==
    IF ds = <<>> THEN 0 ELSE 10 * DigitsToNat(SubSeq(ds, 1, Len(ds) - 1)) + ds[Len(ds)]

SecondsDigits == 10
MtimeSlack    == 50

\* line 245: float(str(mtime)[:10]), mtime given by its decimal digits
remote_mtime_of(digits) == DigitsToNat(SubSeq(digits, 1, Min(SecondsDigits, Len(digits))))

\* line 246
IsUploadMutant(local_mtime, remote_mtime) == local_mtime >= remote_mtime + MtimeSlack
IsUpload(local_mtime, remote_mtime) == local_mtime > remote_mtime + MtimeSlack

----------------------------------------------------------------------------
(* The store's lock (collaborator): filer_get_file_lock, filer_set_file_lock *)

\* filer_get_file_lock(remote_path)[1]
StoreGetLock(l, path) == l[path]

\* filer_set_file_lock(remote_path) by client c: a request to acquire, granted
\* when the path has no owner
StoreSetLock(l, path, c) == IF l[path] = "" THEN [l EXCEPT ![path] = c] ELSE l

\* "lock is removed on a server side": after a sync that succeeded
StoreUnlock(l, path, c) == IF l[path] = c THEN [l EXCEPT ![path] = ""] ELSE l

\* line 280
LockIsFree(owner) == owner = ""

\* line 287
LockConfirmedMutant(owner, client_id) == TRUE
LockConfirmed(owner, client_id) == owner = client_id

----------------------------------------------------------------------------
(* sync_folder: inputs *)

MaxPasses == 3       \* passes of sync_both_files in one run of sync_folder

PathA == <<"d", "/", "a">>
PathB == <<"d", "/", "b">>
RemoteB == <<"/", "u", "/", "d", "/", "b">>

RemoteMtimeDigits == <<1, 0, 0, 0, 0, 0, 0, 0, 0, 0, 9>>   \* 1000000000 s and a fraction
LocalMtimes == {1000000049, 1000000050, 1000000051}

\* the entry the store lists for a file of the given content
MetaOf(bytes, known) ==
    LET cs == FileChunks(bytes, ChunkSize)
    IN  [FileSize |-> Len(bytes),
         Md5      |-> IF known THEN b64encode(Md5(bytes)) ELSE MdNone,
         chunks   |-> [i \in 1..Len(cs) |->
                         [e_tag |-> b64encode(Md5(cs[i])), mtime |-> RemoteMtimeDigits]]]

FolderWalks == {<<<<full_folder_path, fs>>>> : fs \in {{"a"}, {"a", "b"}, {"a", "c"}}}

FolderRemoteA == {<<>>, <<0>>, <<0, 1>>}
FolderLocalA  == {<<0>>, <<0, 1>>}

\* the contents of a on the two sides; beside a second both-side file a is one chunk remotely
FolderContents(walk) ==
    IF PathB \in LocalFiles(walk, TRUE)
    THEN {<<0>>} \X FolderLocalA
    ELSE FolderRemoteA \X FolderLocalA

InitFolder ==
    /\ localWalk \in FolderWalks
    /\ recursive = TRUE
    /\ \E a \in FolderContents(localWalk), known \in BOOLEAN, status \in Statuses :
         /\ remoteBytes = (PathA :> a[1]) @@ (PathB :> <<1>>)
         /\ remoteResp = [status_code |-> status,
                          listing |-> <<Entry(RemoteA, FileModeLimit, MetaOf(a[1], known)),
                                        Entry(RemoteB, FileModeLimit, MetaOf(<<1>>, TRUE))>>]
         /\ disk = [p \in LocalFiles(localWalk, TRUE) |-> IF p = PathA THEN a[2] ELSE <<1>>]
    /\ disk2 = [p \in DOMAIN disk |-> Absent]
    /\ lock = [p \in {PathA, PathB} |-> ""]
    /\ tagAnswers = {MdEmpty, b64encode(Md5(<<0>>))}
    /\ listingRet = NoValue
    /\ pc = "start" /\ retval = "none" /\ futures = <<>> /\ both = <<>> /\ bi = 0
    /\ repeat = <<>> /\ remote_meta = <<>> /\ lockRead = "" /\ passNo = 0 /\ sleeps = 0
    /\ visitLog = <<>> /\ passFacts = {}
    /\ IdleFile /\ IdleRace /\ IdleSide

----------------------------------------------------------------------------
(* sync_folder: lines 257-304 *)

Log(path, what, value) == <<path, what, value>>

\* history: what the pass remembers of a b are its lock calls, its compare/transfer
\* call and its place in the retry queue
PassFacts(entries) ==
    {e \in Range(entries) :
        e[2] \in {"get_lock", "set_lock", "get_lock2", "sync_both_file", "append"}}

\* history: the entries are added to the log of the current b and to the pass
Logged(entries) ==
    /\ visitLog' = visitLog \o entries
    /\ passFacts' = passFacts \cup PassFacts(entries)

\* history: the loop turns to the next b; "again" marks a path the pass already had
NewVisit(entries) ==
    /\ visitLog' = entries
    /\ passFacts' = passFacts \cup PassFacts(entries)
         \cup {Log(entries[1][1], "again", "") : x \in {f \in passFacts : f[1] = entries[1][1]}}

\* lines 258-263 and the submissions of lines 266-271
SyncFolderStart ==
    /\ pc = "start"
    /\ LET ret   == SyncFolderListing(remoteResp, localWalk, recursive)
           tasks == {<<"upload", l>> : l \in ret.local_only}
                    \cup {<<"download", ret.remote_only[i]>> : i \in 1..Len(ret.remote_only)}
       IN  /\ listingRet' = ret
           /\ IF IsHttpError(ret.r)
              THEN /\ pc' = "returned" /\ retval' = "0"
                   /\ UNCHANGED <<futures, both, remote_meta>>
              ELSE /\ pc' = "pool" /\ retval' = retval
                   /\ futures' = [t \in tasks |-> "pending"]
                   /\ both' = [i \in 1..Len(ret.both) |-> ret.both[i][1]]
                   /\ remote_meta' = [q \in {ret.both[i][1] : i \in 1..Len(ret.both)} |->
                                        (CHOOSE pe \in Range(ret.both) : pe[1] = q)[2]]
    /\ UNCHANGED <<sideVars, raceVars, localWalk, remoteResp, recursive, bi, repeat, lockRead, passNo, sleeps,
                   visitLog, passFacts, fileVars, worldVars>>

\* one task of the pool: filer_upload_file_2 (line 269) or filer_download_file (line 271)
PoolTask(t) ==
    /\ pc = "pool" /\ t \in DOMAIN futures /\ futures[t] = "pending"
    /\ \E outcome \in {"ok", "failed", "raised"} :
         /\ futures' = [futures EXCEPT ![t] = outcome]
         /\ IF outcome = "ok" /\ t[1] = "upload"
            THEN /\ remoteBytes' = (t[2] :> disk[t[2]]) @@ remoteBytes
                 /\ UNCHANGED <<disk, disk2>>
            ELSE IF outcome = "ok"
            THEN /\ disk' = (t[2] :> remoteBytes[t[2]]) @@ disk
                 /\ disk2' = (t[2] :> Absent) @@ disk2
                 /\ UNCHANGED remoteBytes
            ELSE UNCHANGED <<disk, disk2, remoteBytes>>
    /\ UNCHANGED <<sideVars, raceVars, listingVars, pc, retval, both, bi, repeat, remote_meta, lockRead, passNo,
                   sleeps, visitLog, passFacts, fileVars, lock, tagAnswers>>

\* the start of sync_both_files(): the for loop over the list both has at this moment
StartPass(list) ==
    /\ passNo' = passNo + 1
    /\ visitLog' = <<>> /\ passFacts' = {}
    /\ bi' = 1
    /\ pc' = IF list = <<>> THEN "loop_check" ELSE "get_lock"

\* lines 272-273: as_completed(futures) and the end of the with block
AllCompletedMutant(fs) == TRUE
AllCompleted(fs) == \A t \in DOMAIN fs : fs[t] # "pending"

\* lines 272-273 and 297: every future completed, first pass
PoolJoin ==
    /\ pc = "pool" /\ AllCompleted(futures)
    /\ StartPass(both)
    /\ UNCHANGED <<sideVars, raceVars, listingVars, retval, futures, both, repeat, remote_meta, lockRead, sleeps,
                   fileVars, worldVars>>

\* continue with the next b of both
Continue ==
    /\ bi' = bi + 1
    /\ pc' = IF bi + 1 > Len(both) THEN "loop_check" ELSE "get_lock"

\* nothing of an earlier call of sync_both_file is left
ResetFile ==
    /\ spc' = "idle" /\ genPos' = 0 /\ md5none' = FALSE /\ mtimes' = <<>>
    /\ sbfRet' = "none" /\ steps' = <<>> /\ tagsSent' = <<>>

\* lines 278-282
GetLock ==
    /\ pc = "get_lock"
    /\ LET path  == both[bi]
           owner == StoreGetLock(lock, path)
       IN  /\ lockRead' = owner
           /\ IF ~LockIsFree(owner)
              THEN /\ repeat' = Append(repeat, path)
                   /\ NewVisit(<<Log(path, "get_lock", owner), Log(path, "append", "")>>)
                   /\ Continue
              ELSE /\ NewVisit(<<Log(path, "get_lock", owner)>>)
                   /\ pc' = "set_lock"
                   /\ UNCHANGED <<repeat, bi>>
    /\ ResetFile
    /\ UNCHANGED <<sideVars, raceVars, listingVars, retval, futures, both, remote_meta, passNo, sleeps,
                   worldVars>>

\* line 285
SetLock ==
    /\ pc = "set_lock"
    /\ lock' = StoreSetLock(lock, both[bi], me)
    /\ Logged(<<Log(both[bi], "set_lock", "")>>)
    /\ pc' = "get_lock2"
    /\ UNCHANGED <<sideVars, raceVars, listingVars, retval, futures, both, bi, repeat, remote_meta, lockRead, passNo,
                   sleeps, fileVars, disk, disk2, remoteBytes, tagAnswers>>

\* lines 286-288 and 292-294; lines 211 and 219 of sync_both_file when it is entered
GetLock2 ==
    /\ pc = "get_lock2"
    /\ LET path  == both[bi]
           owner == StoreGetLock(lock, path)
       IN  /\ lockRead' = owner
           /\ IF LockConfirmed(owner, me)
              THEN /\ Logged(<<Log(path, "get_lock2", owner),
                                             Log(path, "sync_both_file", "")>>)
                   /\ pc' = "sync_both_file"
                   /\ spc' = "md5_tag"
                   /\ genPos' = 0
                   /\ md5none' = (remote_meta[path].Md5 = MdNone)
                   /\ mtimes' = <<>> /\ sbfRet' = "none" /\ steps' = <<>> /\ tagsSent' = <<>>
                   /\ UNCHANGED <<repeat, bi>>
              ELSE /\ repeat' = Append(repeat, path)
                   /\ Logged(<<Log(path, "get_lock2", owner),
                                             Log(path, "append", "")>>)
                   /\ Continue
                   /\ UNCHANGED fileVars
    /\ UNCHANGED <<sideVars, raceVars, listingVars, retval, futures, both, remote_meta, passNo, sleeps, worldVars>>

\* line 298, and line 304 when the loop is left
LoopCheck ==
    /\ pc = "loop_check"
    /\ IF Len(repeat) > 0
       THEN pc' = "sleep" /\ retval' = retval
       ELSE pc' = "returned" /\ retval' = "1"
    /\ ResetFile
    /\ UNCHANGED <<sideVars, raceVars, listingVars, futures, both, bi, repeat, remote_meta, lockRead, passNo,
                   sleeps, visitLog, passFacts, worldVars>>

\* lines 299-302: sleep, both = repeat.copy(), the next pass
Sleep ==
    /\ pc = "sleep" /\ passNo < MaxPasses
    /\ sleeps' = sleeps + 1
    /\ both' = repeat
    /\ StartPass(repeat)
    /\ UNCHANGED <<sideVars, raceVars, listingVars, retval, futures, repeat, remote_meta, lockRead, fileVars,
                   worldVars>>

\* another client takes or gives up the lock of the path this client is about to
\* query or to request
OtherClient ==
    /\ pc \in {"get_lock", "set_lock", "get_lock2"}
    /\ lock[both[bi]] # me
    /\ lock' = [lock EXCEPT ![both[bi]] = IF lock[both[bi]] = "" THEN other ELSE ""]
    /\ UNCHANGED <<sideVars, raceVars, listingVars, folderVars, fileVars, disk, disk2, remoteBytes,
                   tagAnswers>>

----------------------------------------------------------------------------
(* sync_both_file: lines 210-255, with lines 172-208 *)

RdiffResults == {0, 1}
ApiStatuses  == {200, 500}

Step(op, ok) == [op |-> op, ok |-> ok]

\* return of sync_both_file to line 288: repeat.append(b) when the value is falsy;
\* line 291: after a sync that succeeded the store removes the lock
Return(value) ==
    /\ sbfRet' = value
    /\ spc' = "idle"
    /\ IF value = "0"
       THEN /\ repeat' = Append(repeat, both[bi])
            /\ Logged(<<Log(both[bi], "return", value), Log(both[bi], "append", "")>>)
       ELSE /\ repeat' = repeat
            /\ Logged(<<Log(both[bi], "return", value)>>)
    /\ lock' = IF value = "1" THEN StoreUnlock(lock, both[bi], me) ELSE lock
    /\ Continue
    /\ retval' = retval

\* an exception raised in sync_both_file: nothing in sync_folder catches it
Raise(exception) ==
    /\ sbfRet' = "raised"
    /\ spc' = "idle"
    /\ pc' = "raised"
    /\ retval' = exception
    /\ Logged(<<Log(both[bi], "raise", exception)>>)
    /\ UNCHANGED <<repeat, bi, lock>>

\* the next statement of sync_both_file
Proceed(next) ==
    /\ spc' = next
    /\ UNCHANGED <<pc, retval, repeat, bi, visitLog, passFacts, sbfRet, lock>>

\* what Return, Raise and Proceed leave alone in sync_folder
folderRest == <<futures, both, lockRead, passNo, sleeps>>

\* lines 220-226
SbfGetTag ==
    /\ pc = "sync_both_file" /\ spc = "md5_tag"
    /\ IF md5none
       THEN \E seaweed_md5 \in tagAnswers :
              /\ steps' = Append(steps, Step("get_md5_tag", TRUE))
              /\ IF seaweed_md5 # MdEmpty
                 THEN /\ remote_meta' = [remote_meta EXCEPT ![both[bi]].Md5 = seaweed_md5]
                      /\ md5none' = FALSE
                 ELSE UNCHANGED <<remote_meta, md5none>>
       ELSE UNCHANGED <<steps, remote_meta, md5none>>
    /\ spc' = "compare"
    /\ UNCHANGED <<sideVars, raceVars, listingVars, pc, retval, futures, both, bi, repeat, lockRead, passNo, sleeps,
                   visitLog, passFacts, genPos, mtimes, sbfRet, tagsSent, worldVars>>

\* lines 235-238
SbfCompare ==
    /\ pc = "sync_both_file" /\ spc = "compare"
    /\ LET path == both[bi]
           cmp  == AlreadySynced(disk[path], remote_meta[path], md5none, genPos)
       IN  /\ genPos' = cmp.pos
           /\ IF cmp.res = "StopIteration"
              THEN /\ Raise("StopIteration")
                   /\ UNCHANGED steps
              ELSE IF cmp.res = "true"
              THEN /\ steps' = Append(steps, Step("remove_file_tags", TRUE))
                   /\ Proceed("update_synced")
              ELSE /\ Proceed("update")
                   /\ UNCHANGED steps
    /\ UNCHANGED <<sideVars, raceVars, listingVars, folderRest, remote_meta, md5none, mtimes, tagsSent, disk, disk2,
                   remoteBytes, tagAnswers>>

\* update_remote_md5, lines 229-232: the value sent, "StopIteration", or "skip"
UpdateRemoteMd5(bytes, none, pos) ==
    IF ~none THEN [res |-> "skip", pos |-> pos]
    ELSE IF pos >= Len(md5_file_generator(bytes)) THEN [res |-> "StopIteration", pos |-> pos]
    ELSE [res |-> "sent", pos |-> pos + 1, tag |-> b64encode(md5_file_generator(bytes)[pos + 1])]

\* lines 239-240 (then = "1") and line 242 (then = "direction")
SbfUpdate(at, then) ==
    /\ pc = "sync_both_file" /\ spc = at
    /\ LET upd == UpdateRemoteMd5(disk[both[bi]], md5none, genPos)
       IN  /\ genPos' = upd.pos
           /\ IF upd.res = "StopIteration"
              THEN /\ Raise("StopIteration")
                   /\ UNCHANGED <<steps, tagsSent>>
              ELSE /\ IF upd.res = "sent"
                      THEN /\ tagsSent' = Append(tagsSent, upd.tag)
                           /\ steps' = Append(steps, Step("set_md5_tag", TRUE))
                      ELSE UNCHANGED <<steps, tagsSent>>
                   /\ IF then = "1"
                      THEN Return("1")
                      ELSE Proceed(then)
    /\ UNCHANGED <<sideVars, raceVars, listingVars, folderRest, remote_meta, md5none, mtimes, disk, disk2,
                   remoteBytes, tagAnswers>>

SbfUpdateSynced == SbfUpdate("update_synced", "1")
SbfUpdateNotSynced == SbfUpdate("update", "direction")

\* lines 244-246, 251
SbfDirection ==
    /\ pc = "sync_both_file" /\ spc = "direction"
    /\ LET chunks == remote_meta[both[bi]].chunks
       IN  IF chunks = <<>>
           THEN /\ Raise("IndexError")
                /\ UNCHANGED mtimes
           ELSE \E local_mtime \in LocalMtimes :
                  LET remote_mtime == remote_mtime_of(chunks[1].mtime)
                  IN  /\ mtimes' = <<local_mtime, remote_mtime>>
                      /\ Proceed(IF IsUpload(local_mtime, remote_mtime)
                                 THEN "up_signature" ELSE "down_signature")
    /\ UNCHANGED <<sideVars, raceVars, listingVars, folderRest, remote_meta, genPos, md5none, steps, tagsSent,
                   disk, disk2, remoteBytes, tagAnswers>>

----------------------------------------------------------------------------
(* The transfer paths: lines 172-208 and 247-255 *)

FailOr(failed, next) == IF failed THEN Return("0") ELSE Proceed(next)

StepTaken(op, ok) == steps' = Append(steps, Step(op, ok))

sbfFrame == <<sideVars, raceVars, listingVars, folderRest, remote_meta, genPos, md5none, mtimes, tagsSent>>

\* what each caller does with a collaborator's answer
RdiffFailed(res)          == res # 0          \* lines 175, 186, 203
StatusFailedMutant(code)  == FALSE
StatusFailed(code)        == code # 200       \* lines 177, 189, 199
DownSignatureFailed(res)  == FALSE            \* line 196: the result is dropped
SigDownloadFailed(code)   == FALSE            \* line 183: r is not looked at

\* _sync_make_version_delta, lines 173-176
SbfUpSignature ==
    /\ pc = "sync_both_file" /\ spc = "up_signature"
    /\ \E res \in RdiffResults :
         /\ StepTaken("signature", res = 0)
         /\ FailOr(RdiffFailed(res), "up_make_delta")
    /\ UNCHANGED <<sbfFrame, disk, disk2, remoteBytes, tagAnswers>>

\* _sync_make_version_delta, lines 177-179
SbfUpMakeDelta ==
    /\ pc = "sync_both_file" /\ spc = "up_make_delta"
    /\ \E code \in ApiStatuses :
         /\ StepTaken("make_version_delta", code = 200)
         /\ FailOr(StatusFailed(code), "up_download_signature")
    /\ UNCHANGED <<sbfFrame, disk, disk2, remoteBytes, tagAnswers>>

\* _sync_both_file_upload, line 183
SbfUpDownloadSignature ==
    /\ pc = "sync_both_file" /\ spc = "up_download_signature"
    /\ \E code \in ApiStatuses :
         /\ StepTaken("download_signature", code = 200)
         /\ FailOr(SigDownloadFailed(code), "up_delta")
    /\ UNCHANGED <<sbfFrame, disk, disk2, remoteBytes, tagAnswers>>

\* _sync_both_file_upload, lines 185-187
SbfUpDelta ==
    /\ pc = "sync_both_file" /\ spc = "up_delta"
    /\ \E res \in RdiffResults :
         /\ StepTaken("delta", res = 0)
         /\ FailOr(RdiffFailed(res), "up_upload")
    /\ UNCHANGED <<sbfFrame, disk, disk2, remoteBytes, tagAnswers>>

\* _sync_both_file_upload, lines 189-191, and lines 248-250, 255
SbfUpUpload ==
    /\ pc = "sync_both_file" /\ spc = "up_upload"
    /\ \E code \in ApiStatuses :
         /\ StepTaken("upload_delta", code = 200)
         /\ IF StatusFailed(code) THEN Return("0") ELSE Return("1")
         /\ remoteBytes' = IF code = 200
                            THEN [remoteBytes EXCEPT ![both[bi]] = disk[both[bi]]]
                            ELSE remoteBytes
    /\ UNCHANGED <<sbfFrame, disk, disk2, tagAnswers>>

\* _sync_both_file_download, lines 195-196
SbfDownSignature ==
    /\ pc = "sync_both_file" /\ spc = "down_signature"
    /\ \E res \in RdiffResults :
         /\ StepTaken("signature", res = 0)
         /\ FailOr(DownSignatureFailed(res), "down_request")
    /\ UNCHANGED <<sbfFrame, disk, disk2, remoteBytes, tagAnswers>>

\* _sync_both_file_download, lines 198-200
SbfDownRequest ==
    /\ pc = "sync_both_file" /\ spc = "down_request"
    /\ \E code \in ApiStatuses :
         /\ StepTaken("download_delta", code = 200)
         /\ FailOr(StatusFailed(code), "down_patch")
    /\ UNCHANGED <<sbfFrame, disk, disk2, remoteBytes, tagAnswers>>

\* _sync_both_file_download, lines 202-204
SbfDownPatch ==
    /\ pc = "sync_both_file" /\ spc = "down_patch"
    /\ \E res \in RdiffResults :
         /\ StepTaken("patch", res = 0)
         /\ FailOr(RdiffFailed(res), "down_remove")
         /\ disk2' = IF res = 0 THEN [disk2 EXCEPT ![both[bi]] = remoteBytes[both[bi]]] ELSE disk2
    /\ UNCHANGED <<sbfFrame, disk, remoteBytes, tagAnswers>>

\* silent_remove, lines 36-41, called at line 206
SbfDownRemove ==
    /\ pc = "sync_both_file" /\ spc = "down_remove"
    /\ \E errno \in {"none", "ENOENT", "EACCES"} :
         /\ StepTaken("remove", errno # "EACCES")
         /\ IF errno \in {"none", "ENOENT"}
            THEN /\ disk' = [disk EXCEPT ![both[bi]] = Absent]
                 /\ Proceed("down_rename")
            ELSE /\ Raise("OSError")
                 /\ UNCHANGED disk
    /\ UNCHANGED <<sbfFrame, disk2, remoteBytes, tagAnswers>>

\* _sync_both_file_download, lines 207-208, and lines 252-255
SbfDownRename ==
    /\ pc = "sync_both_file" /\ spc = "down_rename"
    /\ StepTaken("rename", TRUE)
    /\ disk' = [disk EXCEPT ![both[bi]] = disk2[both[bi]]]
    /\ disk2' = [disk2 EXCEPT ![both[bi]] = Absent]
    /\ Return("1")
    /\ UNCHANGED <<sbfFrame, remoteBytes, tagAnswers>>

SyncBothFile ==
    \/ SbfGetTag \/ SbfCompare \/ SbfUpdateSynced \/ SbfUpdateNotSynced \/ SbfDirection
    \/ SbfUpSignature \/ SbfUpMakeDelta \/ SbfUpDownloadSignature \/ SbfUpDelta \/ SbfUpUpload
    \/ SbfDownSignature \/ SbfDownRequest \/ SbfDownPatch \/ SbfDownRemove \/ SbfDownRename

Next ==
    \/ SyncFolderStart
    \/ \E t \in DOMAIN futures : PoolTask(t)
    \/ PoolJoin
    \/ GetLock \/ SetLock \/ GetLock2
    \/ SyncBothFile
    \/ LoopCheck \/ Sleep
    \/ OtherClient

Init == InitFolder

Spec == Init /\ [][Next]_vars

----------------------------------------------------------------------------
(* sync_both_file on any local file and any remote entry: the comparison *)

ChunkRecords ==
    {[e_tag |-> b64encode(Md5(c)), mtime |-> RemoteMtimeDigits] : c \in SeqsUpTo(Bytes, ChunkSize)}

CompareMetas ==
    [FileSize : 0..MaxFileLen,
     Md5      : {MdNone} \cup {b64encode(Md5(f)) : f \in Files},
     chunks   : SeqsUpTo(ChunkRecords, MaxRemoteChunks)]

\* the state in which line 288 calls sync_both_file for the only file of the pass
InitCompare ==
    /\ \E bytes \in Files, meta \in CompareMetas :
         /\ disk = (PathA :> bytes)
         /\ remote_meta = (PathA :> Entry(RemoteA, FileModeLimit, meta))
         /\ md5none = (meta.Md5 = MdNone)
    /\ disk2 = (PathA :> Absent)
    /\ remoteBytes = (PathA :> <<>>)
    /\ tagAnswers = {MdEmpty} \cup {b64encode(Md5(f)) : f \in Files}
    /\ lock = (PathA :> me)
    /\ both = <<PathA>> /\ bi = 1 /\ repeat = <<>> /\ futures = <<>>
    /\ pc = "sync_both_file" /\ retval = "none" /\ lockRead = me /\ passNo = 1 /\ sleeps = 0
    /\ visitLog = <<Log(PathA, "get_lock", ""), Log(PathA, "set_lock", ""),
                    Log(PathA, "get_lock2", me), Log(PathA, "sync_both_file", "")>>
    /\ passFacts = Range(visitLog)
    /\ spc = "md5_tag" /\ genPos = 0 /\ mtimes = <<>> /\ sbfRet = "none"
    /\ steps = <<>> /\ tagsSent = <<>>
    /\ localWalk = <<>> /\ recursive = TRUE /\ listingRet = NoValue
    /\ remoteResp = [status_code |-> 200, listing |-> <<>>]
    /\ IdleRace /\ IdleSide

NextCompare == SbfGetTag \/ SbfCompare \/ SbfUpdateSynced \/ SbfUpdateNotSynced

SpecCompare == InitCompare /\ [][NextCompare]_vars

----------------------------------------------------------------------------
(* Several clients running sync_both_files on one path: lines 277-302 *)

NRaceClients == 3

ClientIds   == <<"me", "other", "third", "fourth", "fifth">>
RaceClients == {ClientIds[n] : n \in 1..NRaceClients}

InitRace ==
    /\ rpc = [c \in RaceClients |-> "get_lock"]
    /\ rread = [c \in RaceClients |-> ""]
    /\ lock = (PathA :> "")
    /\ disk = <<>> /\ disk2 = <<>> /\ remoteBytes = <<>> /\ tagAnswers = {}
    /\ localWalk = <<>> /\ recursive = TRUE /\ listingRet = NoValue
    /\ remoteResp = [status_code |-> 200, listing |-> <<>>]
    /\ IdleFolder /\ IdleFile /\ IdleSide

raceFrame == <<sideVars, listingVars, folderVars, fileVars, disk, disk2, remoteBytes, tagAnswers>>

\* lines 280-282
RaceGetLock(c) ==
    /\ rpc[c] = "get_lock"
    /\ LET owner == StoreGetLock(lock, PathA)
       IN  /\ rread' = [rread EXCEPT ![c] = owner]
           /\ rpc' = [rpc EXCEPT ![c] = IF LockIsFree(owner) THEN "set_lock" ELSE "deferred"]
    /\ UNCHANGED <<raceFrame, lock>>

\* line 285
RaceSetLock(c) ==
    /\ rpc[c] = "set_lock"
    /\ lock' = StoreSetLock(lock, PathA, c)
    /\ rpc' = [rpc EXCEPT ![c] = "get_lock2"]
    /\ UNCHANGED <<raceFrame, rread>>

\* lines 286-287 and 292-294
RaceGetLock2(c) ==
    /\ rpc[c] = "get_lock2"
    /\ LET owner == StoreGetLock(lock, PathA)
       IN  /\ rread' = [rread EXCEPT ![c] = owner]
           /\ rpc' = [rpc EXCEPT ![c] =
                        IF LockConfirmed(owner, c) THEN "sync_both_file" ELSE "deferred"]
    /\ UNCHANGED <<raceFrame, lock>>

\* lines 288-291: sync_both_file returns; after a success the store removes the lock
RaceSyncBothFile(c) ==
    /\ rpc[c] = "sync_both_file"
    /\ \E value \in {"0", "1"} :
         /\ rpc' = [rpc EXCEPT ![c] = IF value = "1" THEN "done" ELSE "deferred"]
         /\ lock' = IF value = "1" THEN StoreUnlock(lock, PathA, c) ELSE lock
    /\ UNCHANGED <<raceFrame, rread>>

\* lines 298-302: the deferred file is tried again in the next pass
RaceRetry(c) ==
    /\ rpc[c] = "deferred"
    /\ rpc' = [rpc EXCEPT ![c] = "get_lock"]
    /\ UNCHANGED <<raceFrame, lock, rread>>

NextRace ==
    \E c \in RaceClients :
        \/ RaceGetLock(c) \/ RaceSetLock(c) \/ RaceGetLock2(c)
        \/ RaceSyncBothFile(c) \/ RaceRetry(c)

SpecRace == InitRace /\ [][NextRace]_vars

----------------------------------------------------------------------------
(* The transfer protocol: send_file, upload_file (lines 73-79, 104-113) *)

\* what ws.recv() may return
Messages == {"next", "stop", "other"}

\* one entry of sent: a message taken from ws, a message sent on ws, or bytes sent
\* on tcp_socket; text in strs, bytes in nums
Event(ch, kind, strs, nums) == [ch |-> ch, kind |-> kind, strs |-> strs, nums |-> nums]
Received(msg)  == Event("recv", "message", <<msg>>, <<>>)
WsSent(kind, text) == Event("ws", kind, text, <<>>)
TcpSent(kind, bytes) == Event("tcp", kind, <<>>, bytes)

\* struct.pack('>q', n) for 0 <= n: eight bytes, most significant first
RECURSIVE BigEndian(_, _)
BigEndian(n, k) == IF k = 0 THEN <<>> ELSE BigEndian(n \div 256, k - 1) \o <<n % 256>>

PackWidth == 8
pack_q(n) == BigEndian(n, PackWidth)

SendBufferSize == 8192

\* send_file, lines 75-79
send_file(bytes) ==
    <<TcpSent("buffer_size", pack_q(SendBufferSize)),
      TcpSent("filesize", pack_q(Len(bytes))),
      TcpSent("file", bytes)>>

\* lines 105, 112, 123, 131
IsNextMutant(msg) == TRUE
IsNext(msg) == msg = "next"

IsStop(msg) == msg = "stop"

IdleMain ==
    /\ localWalk = <<>> /\ recursive = TRUE /\ listingRet = NoValue
    /\ remoteResp = [status_code |-> 200, listing |-> <<>>]
    /\ IdleFolder /\ IdleFile /\ IdleWorld /\ IdleRace

RemotePaths == {<<"r", "/", "a">>, <<"r", "/", "b">>}

InitUploadFile ==
    /\ \E bytes \in Files, path \in RemotePaths, exists \in BOOLEAN :
         uargs = [bytes |-> bytes, full_remote_path |-> path, exists |-> exists]
    /\ upc = "recv" /\ di = 0 /\ fi = 0 /\ uret = "none" /\ sent = <<>>
    /\ IdleMain /\ IdleRecv /\ IdleTemp

uploadFrame == <<mainVars, recvVars, tempVars, uargs>>

\* lines 105-106
UfRecv ==
    /\ upc = "recv"
    /\ \E msg \in Messages :
         /\ sent' = Append(sent, Received(msg))
         /\ IF ~IsNext(msg)
            THEN upc' = "returned" /\ uret' = "0"
            ELSE upc' = "send_path" /\ uret' = uret
    /\ UNCHANGED <<uploadFrame, di, fi>>

\* line 107
UfSendPath ==
    /\ upc = "send_path"
    /\ sent' = Append(sent, WsSent("path", uargs.full_remote_path))
    /\ upc' = "send_file"
    /\ UNCHANGED <<uploadFrame, di, fi, uret>>

\* line 108: send_file, whose open() raises when the file is not there
UfSendFile ==
    /\ upc = "send_file"
    /\ IF uargs.exists
       THEN /\ sent' = sent \o send_file(uargs.bytes)
            /\ upc' = "recv_result" /\ uret' = uret
       ELSE /\ upc' = "raised" /\ uret' = "FileNotFoundError"
            /\ UNCHANGED sent
    /\ UNCHANGED <<uploadFrame, di, fi>>

\* lines 110-113
UfRecvResult ==
    /\ upc = "recv_result"
    /\ \E msg \in Messages :
         /\ sent' = Append(sent, Received(msg))
         /\ uret' = IF IsStop(msg) THEN "1" ELSE "0"
    /\ upc' = "returned"
    /\ UNCHANGED <<uploadFrame, di, fi>>

NextUploadFile == UfRecv \/ UfSendPath \/ UfSendFile \/ UfRecvResult

SpecUploadFile == InitUploadFile /\ [][NextUploadFile]_vars

----------------------------------------------------------------------------
(* upload_folder: lines 115-139 *)

MaxLevels == 2          \* directory levels os.walk(root_dir) yields
MaxFilesPerDir == 2     \* filenames of one level

\* str(n) for 0 <= n: decimal digits
Digit(d) == <<"0", "1", "2", "3", "4", "5", "6", "7", "8", "9">>[d + 1]
RECURSIVE str(_)
str(n) == IF n < 10 THEN <<Digit(n)>> ELSE str(n \div 10) \o <<Digit(n % 10)>>

FileNames == {"a", "b", "c"}

\* the bytes of the file of a name
ContentOf(name) == IF name = "a" THEN <<0>> ELSE IF name = "b" THEN <<0, 1>> ELSE <<>>

\* the lists of filenames of one level: distinct names, in any order
FileLists ==
    {fs \in SeqsUpTo(FileNames, MaxFilesPerDir) :
        \A i, j \in 1..Len(fs) : i # j => fs[i] # fs[j]}

\* dir_path of level i of os.walk(root_dir): root_dir, root_dir/s, root_dir/s/s, ...
RECURSIVE DirPath(_)
DirPath(i) == IF i <= 1 THEN full_folder_path ELSE DirPath(i - 1) \o <<"/", "s">>

FolderLevels ==
    UNION {{[i \in 1..n |-> <<DirPath(i), lists[i]>>] : lists \in [1..n -> FileLists]}
           : n \in 0..MaxLevels}

InitUploadFolder ==
    /\ \E walk \in FolderLevels, rec \in BOOLEAN :
         uargs = [walk |-> walk, base_path |-> base_path, recursive |-> rec]
    /\ upc = "for_dir" /\ di = 1 /\ fi = 0 /\ uret = "none" /\ sent = <<>>
    /\ IdleMain /\ IdleRecv /\ IdleTemp

\* lines 137-138
BreakAfterLevelMutant(rec) == FALSE
BreakAfterLevel(rec) == ~rec

\* lines 121-124: the next level of os.walk, or the end of the walk
UdForDir ==
    /\ upc = "for_dir"
    /\ IF di > Len(uargs.walk)
       THEN /\ upc' = "returned" /\ uret' = "None"
            /\ UNCHANGED sent
       ELSE \E msg \in Messages :
              /\ sent' = Append(sent, Received(msg))
              /\ IF ~IsNext(msg)
                 THEN upc' = "returned" /\ uret' = "None"
                 ELSE upc' = "send_level" /\ uret' = uret
    /\ UNCHANGED <<uploadFrame, di, fi>>

\* lines 126-128
UdSendLevel ==
    /\ upc = "send_level"
    /\ LET dir_path  == uargs.walk[di][1]
           filenames == uargs.walk[di][2]
           rel_path  == remove_prefix(dir_path, uargs.base_path \o Slash)
       IN  sent' = sent \o <<WsSent("rel_path", rel_path), WsSent("count", str(Len(filenames)))>>
    /\ fi' = 1
    /\ upc' = "for_file"
    /\ UNCHANGED <<uploadFrame, di, uret>>

\* lines 130-132, and lines 137-138 after the last file of the level
UdForFile ==
    /\ upc = "for_file"
    /\ IF fi > Len(uargs.walk[di][2])
       THEN /\ IF BreakAfterLevel(uargs.recursive)
               THEN upc' = "returned" /\ uret' = "None" /\ di' = di
               ELSE upc' = "for_dir" /\ uret' = uret /\ di' = di + 1
            /\ UNCHANGED sent
       ELSE /\ \E msg \in Messages :
                 /\ sent' = Append(sent, Received(msg))
                 /\ IF ~IsNext(msg)
                    THEN upc' = "returned" /\ uret' = "None"
                    ELSE upc' = "send_name" /\ uret' = uret
            /\ di' = di
    /\ UNCHANGED <<uploadFrame, fi>>

\* line 134
UdSendName ==
    /\ upc = "send_name"
    /\ sent' = Append(sent, WsSent("name", <<uargs.walk[di][2][fi]>>))
    /\ upc' = "send_file"
    /\ UNCHANGED <<uploadFrame, di, fi, uret>>

\* lines 135-136
UdSendFile ==
    /\ upc = "send_file"
    /\ sent' = sent \o send_file(ContentOf(uargs.walk[di][2][fi]))
    /\ fi' = fi + 1
    /\ upc' = "for_file"
    /\ UNCHANGED <<uploadFrame, di, uret>>

NextUploadFolder == UdForDir \/ UdSendLevel \/ UdForFile \/ UdSendName \/ UdSendFile

SpecUploadFolder == InitUploadFolder /\ [][NextUploadFolder]_vars

----------------------------------------------------------------------------
(* receive_file: lines 82-88 *)

MaxPayload == 4         \* bytes of the payload the peer sends
BuffSize   == 5         \* buff_size: the most one tcp_socket.recv returns

\* the byte values of the stream: the letters of b'stop' and one other byte
Letters == {"s", "t", "o", "p", "x"}

\* line 86: b'stop'
StopBytes == <<"s", "t", "o", "p">>

Payloads == SeqsUpTo(Letters, MaxPayload)

\* everything the peer puts on the socket: the payload, then b'stop' when it sends one
Sending(payload, sentinel) == payload \o (IF sentinel THEN StopBytes ELSE <<>>)

InitRecv ==
    /\ \E payload \in Payloads, sentinel \in BOOLEAN, closes \in BOOLEAN :
         stream = [payload |-> payload, sentinel |-> sentinel, closes |-> closes,
                   rest |-> Sending(payload, sentinel)]
    /\ rcvpc = "recv" /\ file = <<>> /\ buf = <<>>
    /\ IdleMain /\ IdleUpload /\ IdleTemp

\* line 86
IsEndOfFile(b) == b = <<>> \/ b = StopBytes

\* lines 85-88: one turn of the loop. recv returns between 1 and buff_size of the
\* bytes not yet read, b'' when the peer has closed, and waits otherwise
RcvLoop ==
    /\ rcvpc = "recv"
    /\ \E n \in 0..Min(BuffSize, Len(stream.rest)) :
         /\ IF stream.rest = <<>> THEN stream.closes ELSE n > 0
         /\ buf' = SubSeq(stream.rest, 1, n)
         /\ stream' = [stream EXCEPT !.rest = SubSeq(stream.rest, n + 1, Len(stream.rest))]
         /\ IF IsEndOfFile(buf')
            THEN rcvpc' = "returned" /\ file' = file
            ELSE rcvpc' = "recv" /\ file' = file \o buf'
    /\ UNCHANGED <<mainVars, uploadVars, tempVars>>

SpecRecv == InitRecv /\ [][RcvLoop]_vars

----------------------------------------------------------------------------
(* The scratch directory: __init__ and clean_temp_dir (lines 24-33, 43-47) *)

NInstances == 2         \* engine instances started on the machine

InstanceIds == <<"i1", "i2", "i3", "i4">>
Instances == {InstanceIds[i] : i \in 1..NInstances}

\* folder names are texts; "P" stands for 'Seaweed_Cloud_Storage_' (line 28)
temp_dir_prefix == <<"P">>

\* sub in text, for Python's strings
Contains(sub, text) ==
    \E i \in 1..(Len(text) - Len(sub) + 1) : SubSeq(text, i, i + Len(sub) - 1) = sub

\* line 29: TemporaryDirectory(prefix=...) names a new folder prefix + unique suffix
TempDirName(c) == temp_dir_prefix \o <<c>>

StaleDir   == TempDirName("old")      \* left by an instance that crashed earlier
ForeignDir == <<"x">>                 \* another program's folder
ForeignDirWithPrefix == <<"x">> \o temp_dir_prefix \o <<"y">>

\* line 46
IsOthersScratch(folder, own) ==
    Contains(temp_dir_prefix, folder) /\ ~Contains(own, folder)

Alive == {"created", "purging", "running"}

InitTemp ==
    /\ \E others \in SUBSET {StaleDir, ForeignDirWithPrefix} : tempRoot = {ForeignDir} \cup others
    /\ inst = [c \in Instances |-> "off"]
    /\ scan = [c \in Instances |-> {}]
    /\ IdleMain /\ IdleUpload /\ IdleRecv

tempFrame == <<mainVars, uploadVars, recvVars>>

\* lines 29-31: the instance's own folder is made and its removal registered
TmpCreate(c) ==
    /\ inst[c] = "off"
    /\ tempRoot' = tempRoot \cup {TempDirName(c)}
    /\ inst' = [inst EXCEPT ![c] = "created"]
    /\ UNCHANGED <<tempFrame, scan>>

\* line 44: next(os.walk(gettempdir())) lists the folders there are now
TmpList(c) ==
    /\ inst[c] = "created"
    /\ scan' = [scan EXCEPT ![c] = tempRoot]
    /\ inst' = [inst EXCEPT ![c] = "purging"]
    /\ UNCHANGED <<tempFrame, tempRoot>>

\* lines 45-47: one folder of the listing; rmtree raises when the folder is gone
TmpPurge(c) ==
    /\ inst[c] = "purging"
    /\ \E folder \in scan[c] :
         /\ scan' = [scan EXCEPT ![c] = scan[c] \ {folder}]
         /\ IF IsOthersScratch(folder, TempDirName(c))
            THEN IF folder \in tempRoot
                 THEN /\ tempRoot' = tempRoot \ {folder}
                      /\ inst' = inst
                 ELSE /\ inst' = [inst EXCEPT ![c] = "failed"]
                      /\ tempRoot' = tempRoot
            ELSE UNCHANGED <<tempRoot, inst>>
    /\ UNCHANGED tempFrame

\* line 47 after the last folder: __init__ returns
TmpReady(c) ==
    /\ inst[c] = "purging" /\ scan[c] = {}
    /\ inst' = [inst EXCEPT ![c] = "running"]
    /\ UNCHANGED <<tempFrame, tempRoot, scan>>

\* line 31: the process ends and atexit runs temp_dir.cleanup
TmpExit(c) ==
    /\ inst[c] \in {"running", "failed"}
    /\ tempRoot' = tempRoot \ {TempDirName(c)}
    /\ inst' = [inst EXCEPT ![c] = "exited"]
    /\ UNCHANGED <<tempFrame, scan>>

\* the process is killed: nothing registered with atexit runs
TmpCrash(c) ==
    /\ inst[c] \in Alive
    /\ inst' = [inst EXCEPT ![c] = "crashed"]
    /\ scan' = [scan EXCEPT ![c] = {}]
    /\ UNCHANGED <<tempFrame, tempRoot>>

NextTemp ==
    \E c \in Instances :
        \/ TmpCreate(c) \/ TmpList(c) \/ TmpPurge(c) \/ TmpReady(c)
        \/ TmpExit(c) \/ TmpCrash(c)

SpecTemp == InitTemp /\ [][NextTemp]_vars

----------------------------------------------------------------------------
(* C1: a successful sync_folder_listing returns local_only = L \ R,          *)
(* remote_only = R \ L and both = R \cap L: pairwise disjoint, union L \cup R; *)
(* entries with Mode > 9999 are in none of the three.                        *)

C1_L == LocalFiles(localWalk, recursive)
C1_FileEntries == {e \in Range(remoteResp.listing) : e.Mode <= 9999}
C1_DirEntries  == {e \in Range(remoteResp.listing) : e.Mode > 9999}
C1_Rel(e) == remove_prefix(e.FullPath, <<"/", "u", "/">>)
C1_R == {C1_Rel(e) : e \in C1_FileEntries}
C1_RemoteOnly == Range(listingRet.remote_only)
C1_Both == {pe[1] : pe \in Range(listingRet.both)}

C1_Partition ==
    (listingRet # NoValue /\ listingRet.r < 300) =>
        /\ listingRet.local_only = C1_L \ C1_R
        /\ C1_RemoteOnly = C1_R \ C1_L
        /\ C1_Both = C1_R \cap C1_L
        /\ listingRet.local_only \cap C1_RemoteOnly = {}
        /\ listingRet.local_only \cap C1_Both = {}
        /\ C1_RemoteOnly \cap C1_Both = {}
        /\ listingRet.local_only \cup C1_RemoteOnly \cup C1_Both = C1_L \cup C1_R
        /\ Len(listingRet.remote_only) = Cardinality(C1_RemoteOnly)
        /\ Len(listingRet.both) = Cardinality(C1_Both)
        /\ \A pe \in Range(listingRet.both) : pe[2].Mode <= 9999 /\ C1_Rel(pe[2]) = pe[1]
        /\ \A e \in C1_DirEntries :
              /\ e \notin {pe[2] : pe \in Range(listingRet.both)}
              /\ C1_Rel(e) \notin C1_R => C1_Rel(e) \notin (C1_RemoteOnly \cup C1_Both)
              /\ C1_Rel(e) \notin C1_L => C1_Rel(e) \notin listingRet.local_only

C1_Witness ==
    /\ listingRet # NoValue /\ listingRet.r < 300
    /\ listingRet.local_only # {}
    /\ listingRet.remote_only # <<>>
    /\ listingRet.both # <<>>
    /\ C1_DirEntries # {}

----------------------------------------------------------------------------
(* C2: in every pass, sync_both_file is started for a path only after this   *)
(* client read the lock empty, requested it and read back its own client_id; *)
(* when the read-back owner is anything else the file is appended to the     *)
(* retry queue and nothing of sync_both_file is done for it in that pass.    *)

C2_Fact(path, what, value) == <<path, what, value>> \in passFacts

C2_LockedBeforeSync ==
    /\ pc = "sync_both_file" =>
          Len(visitLog) >= 4 /\ visitLog[4] = <<both[bi], "sync_both_file", "">>
    /\ \A i \in 1..Len(visitLog) :
          LET path == visitLog[i][1]
          IN  /\ visitLog[i][2] = "sync_both_file" =>
                  /\ i = 4
                  /\ visitLog[1] = <<path, "get_lock", "">>
                  /\ visitLog[2] = <<path, "set_lock", "">>
                  /\ visitLog[3] = <<path, "get_lock2", "me">>
              /\ (visitLog[i][2] = "get_lock2" /\ visitLog[i][3] # "me") =>
                  /\ Len(visitLog) = i + 1
                  /\ visitLog[i + 1] = <<path, "append", "">>
                  /\ repeat # <<>> /\ repeat[Len(repeat)] = path
    /\ \A f \in passFacts :
          (f[2] = "get_lock2" /\ f[3] # "me") =>
              /\ C2_Fact(f[1], "append", "")
              /\ ~C2_Fact(f[1], "sync_both_file", "")

----------------------------------------------------------------------------
(* C4: the retry loop repeats only until the retry queue empties: when no    *)
(* file was deferred in the pass just finished, the loop condition finds the *)
(* queue empty, so sync_folder leaves the loop and returns 1.                *)

C4_NothingDeferred == \A f \in passFacts : f[2] # "append"

C4_LoopEndsWhenNothingDeferred ==
    (pc = "loop_check" /\ C4_NothingDeferred) => Len(repeat) = 0

----------------------------------------------------------------------------
(* C5: a file whose first lock query finds an owner is appended to the retry *)
(* queue with no set-lock, compare or transfer for it in that pass; it is    *)
(* attempted again only after a sleep (passes are separated by one sleep     *)
(* each); there is no sleep when the first pass deferred no file.            *)

C5_BusyIsDeferred ==
    /\ (visitLog # <<>> /\ visitLog[1][2] = "get_lock" /\ visitLog[1][3] # "") =>
          /\ visitLog = <<visitLog[1], <<visitLog[1][1], "append", "">> >>
          /\ repeat # <<>> /\ repeat[Len(repeat)] = visitLog[1][1]
    /\ \A f \in passFacts :
          (f[2] = "get_lock" /\ f[3] # "") =>
              /\ <<f[1], "set_lock", "">> \notin passFacts
              /\ <<f[1], "sync_both_file", "">> \notin passFacts
              /\ <<f[1], "again", "">> \notin passFacts
    /\ passNo >= 1 => sleeps = passNo - 1
    /\ sleeps > 0 => Len(repeat) > 0

----------------------------------------------------------------------------
(* C6: once the direction is chosen, a failure of any step (signature,       *)
(* version-delta request, signature download, delta, delta upload, delta     *)
(* download, patch) makes sync_both_file return 0, the file is appended to   *)
(* the retry queue and no later step runs.                                   *)

C6_Ops == {"signature", "make_version_delta", "download_signature", "delta", "upload_delta",
           "download_delta", "patch"}

C6_FailureDefers ==
    \A i \in 1..Len(steps) :
        (steps[i].op \in C6_Ops /\ ~steps[i].ok) =>
            /\ i = Len(steps)
            /\ spc = "idle" /\ sbfRet = "0"
            /\ repeat # <<>> /\ repeat[Len(repeat)] = visitLog[1][1]

----------------------------------------------------------------------------
(* C7: no failure of a single file ends the run: no exception leaves         *)
(* sync_folder.                                                              *)

C7_NoExceptionEscapes == pc # "raised"

----------------------------------------------------------------------------
(* C10: the upload path is taken iff local_mtime > remote_mtime + 50, the    *)
(* download path otherwise (also at local_mtime = remote_mtime + 50), and    *)
(* only one of the two runs in an attempt.                                   *)

C10_UpOps   == {"make_version_delta", "download_signature", "delta", "upload_delta"}
C10_DownOps == {"download_delta", "patch", "remove", "rename"}
C10_UpAt    == {"up_signature", "up_make_delta", "up_download_signature", "up_delta", "up_upload"}
C10_DownAt  == {"down_signature", "down_request", "down_patch", "down_remove", "down_rename"}
C10_Ran(ops) == \E i \in 1..Len(steps) : steps[i].op \in ops

C10_Direction ==
    /\ mtimes = <<>> => spc \notin (C10_UpAt \cup C10_DownAt) /\ ~C10_Ran(C10_UpOps \cup C10_DownOps)
    /\ mtimes # <<>> =>
         IF mtimes[1] > mtimes[2] + 50
         THEN /\ spc \notin C10_DownAt /\ ~C10_Ran(C10_DownOps)
              /\ spc \in C10_UpAt \/ C10_Ran({"signature"})
         ELSE /\ spc \notin C10_UpAt /\ ~C10_Ran(C10_UpOps)
              /\ spc \in C10_DownAt \/ C10_Ran({"signature"})

C10_Witness ==
    /\ mtimes # <<>> /\ mtimes[1] = mtimes[2] + 50
    /\ sbfRet = "1" /\ C10_Ran({"rename"})

----------------------------------------------------------------------------
(* C8: sync_both_file returns 1 as already synced iff the local size equals  *)
(* FileSize and either the whole-file digest is known (listing or tag) and   *)
(* equals the local one, or it is unknown and every remote chunk digest, in  *)
(* order, equals the digest of the local chunk of the same index; when the   *)
(* sizes differ no digest is taken from the generator.                       *)

C8_Bytes == disk[PathA]
C8_Meta  == remote_meta[PathA]
C8_LocalChunks == FileChunks(C8_Bytes, ChunkSize)

C8_Expected ==
    /\ Len(C8_Bytes) = C8_Meta.FileSize
    /\ \/ C8_Meta.Md5 # MdNone /\ C8_Meta.Md5.of = [md5 |-> C8_Bytes]
       \/ /\ C8_Meta.Md5 = MdNone
          /\ \A i \in 1..Len(C8_Meta.chunks) :
                /\ i <= Len(C8_LocalChunks)
                /\ C8_Meta.chunks[i].e_tag.of = [md5 |-> C8_LocalChunks[i]]

C8_AlreadySyncedIff ==
    /\ sbfRet = "1" => C8_Expected
    /\ spc \in {"update", "direction"} => ~C8_Expected
    /\ (spc \in {"update", "direction"} /\ Len(C8_Bytes) # C8_Meta.FileSize) =>
          genPos <= (IF spc = "update" THEN 0 ELSE 1)
    /\ sbfRet = "raised" => ~C8_Expected

C8_Witness ==
    /\ sbfRet = "1" /\ C8_Meta.Md5 = MdNone /\ Len(C8_Meta.chunks) = 2
    /\ Len(C8_Bytes) = 2

----------------------------------------------------------------------------
(* C9: every content-hash tag sync_both_file sends to the store is the       *)
(* whole-file digest of the local file, and at most one is sent per call.    *)

C9_TagIsWholeFileDigest ==
    /\ Len(tagsSent) <= 1
    /\ \A i \in 1..Len(tagsSent) : tagsSent[i] = b64encode([md5 |-> disk[both[bi]]])

----------------------------------------------------------------------------
(* C3: of the clients running get lock, set lock, get lock on one path, at   *)
(* most one reads back its own client_id while the lock is held, so no two   *)
(* of them are inside sync_both_file for the path at the same time.          *)

C3_InSync == {c \in RaceClients : rpc[c] = "sync_both_file"}

C3_AtMostOneOwner ==
    /\ Cardinality(C3_InSync) <= 1
    /\ \A c \in C3_InSync : rread[c] = c /\ lock[PathA] = c

C3_Witness ==
    /\ rpc["me"] = "sync_both_file"
    /\ rpc["other"] = "deferred" /\ rread["other"] = "me"

----------------------------------------------------------------------------
(* C11: nothing is done for a both-side file (lock query, lock request,      *)
(* compare, transfer) while a task of the pool is still running, whatever    *)
(* the tasks' order and outcomes; the value sync_folder returns is decided   *)
(* by the listing's status alone, not by the tasks' outcomes.                *)

C11_BothSideWorkBegun ==
    \/ pc \in {"get_lock", "set_lock", "get_lock2", "sync_both_file", "loop_check", "sleep",
               "raised"}
    \/ passNo > 0 \/ passFacts # {} \/ visitLog # <<>> \/ steps # <<>> \/ spc # "idle"

C11_PoolFinishedFirst ==
    /\ C11_BothSideWorkBegun => \A t \in DOMAIN futures : futures[t] \in {"ok", "failed", "raised"}
    /\ pc = "pool" => ~C11_BothSideWorkBegun /\ lock = [q \in DOMAIN lock |-> ""]
    /\ pc = "returned" => retval = (IF remoteResp.status_code >= 300 THEN "0" ELSE "1")

C11_Witness ==
    /\ pc = "returned" /\ retval = "1" /\ passNo > 0
    /\ \E t \in DOMAIN futures : futures[t] = "raised"
    /\ \E t \in DOMAIN futures : futures[t] = "failed"

----------------------------------------------------------------------------
(* C15: when the listing call answers a status code >= 300,                  *)
(* sync_folder_listing returns that response with empty local_only,          *)
(* remote_only and both, and sync_folder returns 0: no task submitted, no    *)
(* lock call, no pass over both and no retry loop.                           *)

C15_FailedListing ==
    (remoteResp.status_code >= 300 /\ pc # "start") =>
        /\ listingRet.r = remoteResp.status_code
        /\ listingRet.local_only = {} /\ listingRet.remote_only = <<>> /\ listingRet.both = <<>>
        /\ pc = "returned" /\ retval = "0"
        /\ DOMAIN futures = {}
        /\ both = <<>> /\ repeat = <<>>
        /\ passNo = 0 /\ sleeps = 0 /\ visitLog = <<>> /\ passFacts = {} /\ steps = <<>>
        /\ \A q \in DOMAIN lock : lock[q] = ""

C15_Witness ==
    /\ remoteResp.status_code >= 300 /\ remoteResp.listing # <<>>
    /\ LocalFiles(localWalk, recursive) # {}
    /\ pc = "returned" /\ retval = "0"

----------------------------------------------------------------------------
(* C17: a retry pass runs over exactly the files the pass before it          *)
(* deferred, each once (so a file that completed is never visited again);    *)
(* no file is visited twice in a pass; the retry queue never holds more      *)
(* entries than there are both-side files.                                   *)

C17_Deferred == {f[1] : f \in {g \in passFacts : g[2] = "append"}}

C17_Step ==
    /\ (pc = "sleep" /\ pc' # "sleep") =>
          /\ Range(both') = C17_Deferred
          /\ Len(both') = Cardinality(C17_Deferred)
    /\ \A f \in passFacts' : f[2] # "again"
    /\ listingRet' # NoValue => Len(repeat') <= Len(listingRet'.both)

C17_RetryPassIsDeferredSet == [][C17_Step]_vars

----------------------------------------------------------------------------
(* C18: a file deferred because its own attempt failed reaches the compare / *)
(* transfer step again on a later pass when no other client holds the lock:  *)
(* it is never deferred because the lock query finds this client's own id,   *)
(* left from the failed attempt, as the owner.                               *)

C18_NotDeferredByOwnLock ==
    \A f \in passFacts :
        (f[2] = "get_lock" /\ f[3] = me) => <<f[1], "append", "">> \notin passFacts

----------------------------------------------------------------------------
(* C19: on the download path the local file is replaced atomically: a failed *)
(* delta request or patch leaves it unchanged, it changes only after a       *)
(* successful patch, and after every step of _sync_both_file_download the    *)
(* local path holds the complete old content or the complete patched one.    *)

C19_Step ==
    (pc = "sync_both_file" /\ spc \in {"down_signature", "down_request", "down_patch",
                                        "down_remove", "down_rename"}) =>
        LET path == both[bi]
        IN  /\ disk'[path] # Absent
            /\ disk'[path] = disk[path] \/ disk'[path] = disk2[path]
            /\ (spc \in {"down_request", "down_patch"} /\ sbfRet' = "0") => disk' = disk
            /\ disk'[path] # disk[path] =>
                  \E i \in 1..Len(steps) : steps[i] = [op |-> "patch", ok |-> TRUE]

C19_ReplacedAtomically == [][C19_Step]_vars

----------------------------------------------------------------------------
(* C20: in the upload direction the steps run in the order signature,        *)
(* version-delta request, delta generation, delta upload; the delta upload   *)
(* is issued only after signature and version-delta request succeeded; no    *)
(* step of the download path runs; the attempt returns 1 only when the delta *)
(* upload answered status 200.                                               *)

C20_UploadChosen == mtimes # <<>> /\ mtimes[1] > mtimes[2] + 50

C20_At(op) == {i \in 1..Len(steps) : steps[i].op = op}

C20_Before(op1, op2) ==
    \A j \in C20_At(op2) : \E i \in C20_At(op1) : i < j /\ steps[i].ok

C20_UploadOrder ==
    C20_UploadChosen =>
        /\ \A op \in {"signature", "make_version_delta", "delta", "upload_delta"} :
              Cardinality(C20_At(op)) <= 1
        /\ C20_Before("signature", "make_version_delta")
        /\ C20_Before("make_version_delta", "delta")
        /\ C20_Before("delta", "upload_delta")
        /\ C20_Before("signature", "upload_delta")
        /\ C20_Before("make_version_delta", "upload_delta")
        /\ \A op \in {"download_delta", "patch", "remove", "rename"} : C20_At(op) = {}
        /\ spc \notin {"down_signature", "down_request", "down_patch", "down_remove", "down_rename"}
        /\ sbfRet = "1" => /\ steps # <<>>
                           /\ steps[Len(steps)] = [op |-> "upload_delta", ok |-> TRUE]

C20_Witness ==
    /\ C20_UploadChosen /\ sbfRet = "1"
    /\ steps[Len(steps)] = [op |-> "upload_delta", ok |-> TRUE]

----------------------------------------------------------------------------
(* C12: upload_file sends the path on ws and then the file (header, bytes)   *)
(* on tcp_socket, only after it received 'next'; when the first message is   *)
(* not 'next' it sends nothing and returns 0; it returns 1 iff the message   *)
(* received after the file was sent is 'stop'.                               *)

C12_Full ==
    <<Received("next"), WsSent("path", uargs.full_remote_path)>> \o send_file(uargs.bytes)

C12_Handshake ==
    /\ sent # <<>> => sent[1].ch = "recv"
    /\ (sent # <<>> /\ sent[1] # Received("next")) =>
          Len(sent) = 1 /\ upc = "returned" /\ uret = "0"
    /\ (sent # <<>> /\ sent[1] = Received("next")) =>
          /\ \A i \in 1..Len(sent) : i <= Len(C12_Full) => sent[i] = C12_Full[i]
          /\ Len(sent) <= Len(C12_Full) + 1
          /\ Len(sent) = Len(C12_Full) + 1 => sent[Len(sent)].ch = "recv"
    /\ uret = "1" <=> (Len(sent) = Len(C12_Full) + 1 /\ sent[Len(sent)] = Received("stop"))
    /\ upc = "returned" =>
          /\ uret \in {"0", "1"}
          /\ Len(sent) \in {1, Len(C12_Full) + 1}

C12_Witness ==
    /\ uret = "1" /\ Len(uargs.bytes) = 2
    /\ sent[Len(sent)] = Received("stop")

----------------------------------------------------------------------------
(* C13: in upload_folder every emission has its own 'next' before it: one    *)
(* before the (relative path, file count) of a level and one before the      *)
(* (name, bytes) of a file; no more names follow a count than it announced;  *)
(* a message other than 'next' where a grant is awaited ends the push with   *)
(* nothing more sent; with recursive=False only the first level is sent.     *)

RECURSIVE C13_Files(_, _)
C13_Files(names, k) ==
    IF k = 0 THEN <<>>
    ELSE C13_Files(names, k - 1)
         \o <<Received("next"), WsSent("name", <<names[k]>>)>>
         \o send_file(ContentOf(names[k]))

RECURSIVE C13_Walk(_)
C13_Walk(l) ==
    IF l = 0 THEN <<>>
    ELSE LET dir   == uargs.walk[l][1]
             names == uargs.walk[l][2]
         IN  C13_Walk(l - 1)
             \o <<Received("next"), WsSent("rel_path", SubSeq(dir, 3, Len(dir))),
                  WsSent("count", str(Len(names)))>>
             \o C13_Files(names, Len(names))

C13_Levels ==
    IF uargs.recursive \/ Len(uargs.walk) = 0 THEN Len(uargs.walk) ELSE 1

C13_NamesAfter(i) ==
    {j \in (i + 1)..Len(sent) :
        /\ sent[j].kind = "name"
        /\ \A k \in (i + 1)..j : sent[k].kind # "count"}

C13_Grants ==
    LET full == C13_Walk(C13_Levels)
    IN  /\ Len(sent) <= Len(full)
        /\ \A i \in 1..Len(sent) :
              \/ sent[i] = full[i]
              \/ /\ sent[i].ch = "recv" /\ full[i].ch = "recv"
                 /\ i = Len(sent) /\ upc = "returned"
        /\ \A i \in 1..Len(sent) :
              sent[i].kind = "count" =>
                  \E n \in 0..Len(sent) :
                      str(n) = sent[i].strs /\ Cardinality(C13_NamesAfter(i)) <= n
        /\ upc = "returned" =>
              \/ sent = full
              \/ sent # <<>> /\ sent[Len(sent)].ch = "recv"
                             /\ sent[Len(sent)] # Received("next")

C13_Witness ==
    /\ upc = "returned" /\ ~uargs.recursive
    /\ Len(uargs.walk) = 2 /\ Len(uargs.walk[1][2]) = 2 /\ Len(uargs.walk[2][2]) > 0
    /\ sent = C13_Walk(1)

----------------------------------------------------------------------------
(* C14: receive_file stops at the first read that returns no bytes or        *)
(* b'stop'; the file then holds the concatenation of all reads before that   *)
(* one; and it holds the whole payload of the peer, no byte dropped or taken *)
(* for the sentinel, however the stream is split into reads.                 *)

C14_Read == SubSeq(Sending(stream.payload, stream.sentinel), 1,
                   Len(stream.payload) + (IF stream.sentinel THEN 4 ELSE 0) - Len(stream.rest))

C14_PayloadWritten ==
    /\ rcvpc = "returned" => buf \in {<<>>, <<"s", "t", "o", "p">>}
    /\ (rcvpc = "recv" /\ C14_Read # <<>>) => buf \notin {<<>>, <<"s", "t", "o", "p">>}
    /\ rcvpc = "returned" => file \o buf = C14_Read
    /\ rcvpc = "recv" => file = C14_Read
    /\ rcvpc = "returned" => file = stream.payload

----------------------------------------------------------------------------
(* C16: from its startup to its own shutdown an instance's scratch folder is *)
(* there: no other instance's startup purge removes it; the purge removes    *)
(* only folders with the prefix that belong to instances no longer running,  *)
(* and never the purging instance's own folder.                              *)

C16_ExclusivelyOwned ==
    /\ \A c \in Instances :
          inst[c] \in Alive => TempDirName(c) \in tempRoot
    /\ ForeignDir \in tempRoot

====
